---- MODULE Spec2Model ----
(***************************************************************************)
(* Energy-System: the seasonal predictor (ml_predictor.py), the trend      *)
(* analyser and insight generator (utils.py).                              *)
(*                                                                         *)
(* Numbers.  The program computes in IEEE doubles; the model computes in   *)
(* exact rationals <<n, d>> (d > 0, lowest terms), extended by the two     *)
(* IEEE outcomes of a division by zero, Inf and NaN.  A timestamp is   *)
(* the number of whole hours since a Monday 00:00, so that .hour and       *)
(* .weekday() are derived from it as datetime derives them.                *)
(***************************************************************************)
EXTENDS Integers, Sequences, FiniteSets, TLC

(***************************************************************************)
(* Bounds of the model.                                                    *)
(***************************************************************************)
\* predict is called with horizon in 0..MaxHorizon
MaxHorizon == 2
\* sample counts above the backtest threshold: 49 .. 48 + MaxExtra
MaxExtra == 1
\* analyze_trends is also called with every series of up to MaxSeries
\* samples drawn from SeriesSamples
MaxSeries == 2

(***************************************************************************)
(* Program constants.                                                      *)
(***************************************************************************)
MinTrain == 24
BacktestMin == 48
HoldOut == 24
DefaultScore == 70
DefaultFlat == 50
ClampLo == 10
ClampHi == 200

\* Python's None: a value that is no number and no mapping
None == << <<>> >>
\* IEEE infinity and not-a-number, as numpy's division by zero gives them
Inf == <<1, 0>>
NaN == <<0, 0>>

(***************************************************************************)
(* Exact rational arithmetic.                                              *)
(***************************************************************************)
Abs(x) == IF x < 0 THEN -x ELSE x

RECURSIVE GCD(_, _)
GCD(a, b) == IF b = 0 THEN a ELSE GCD(b, a % b)

RNorm(n, d) ==
    LET g == GCD(Abs(n), d)
    IN  IF n = 0 THEN <<0, 1>> ELSE <<n \div g, d \div g>>

R(i) == <<i, 1>>
\* over the least common denominator, to keep the integers small
RAdd(x, y) ==
    LET g == GCD(x[2], y[2])
    IN  RNorm(x[1] * (y[2] \div g) + y[1] * (x[2] \div g), (x[2] \div g) * y[2])
RSub(x, y) == RAdd(x, <<-y[1], y[2]>>)
RMul(x, y) == RNorm(x[1] * y[1], x[2] * y[2])
\* y # 0
RDiv(x, y) ==
    IF y[1] > 0 THEN RNorm(x[1] * y[2], x[2] * y[1])
    ELSE RNorm(-(x[1] * y[2]), x[2] * (-y[1]))
RLt(x, y) == x[1] * y[2] < y[1] * x[2]
RLe(x, y) == x[1] * y[2] <= y[1] * x[2]
RAbs(x) == <<Abs(x[1]), x[2]>>
\* Python's max(a, b) and min(a, b): the first argument unless the second
\* is strictly greater (smaller)
RMax(x, y) == IF RLt(x, y) THEN y ELSE x
RMin(x, y) == IF RLt(y, x) THEN y ELSE x

\* the sum of s[lo..hi]
RECURSIVE RSumRange(_, _, _)
RSumRange(s, lo, hi) ==
    IF lo > hi THEN R(0)
    ELSE IF lo = hi THEN s[lo]
    ELSE LET mid == (lo + hi) \div 2
         IN  RAdd(RSumRange(s, lo, mid), RSumRange(s, mid + 1, hi))

RSum(s) == RSumRange(s, 1, Len(s))

\* np.mean of a non-empty list
RMean(s) == RDiv(RSum(s), R(Len(s)))

\* round(x, 1): to one decimal, ties to even
Round1(x) ==
    LET n == x[1] * 10
        f == n \div x[2]
        rem == n - f * x[2]
        up == \/ 2 * rem > x[2]
              \/ 2 * rem = x[2] /\ f % 2 = 1
    IN  RNorm(IF up THEN f + 1 ELSE f, 10)

(***************************************************************************)
(* Samples.  A sample is a record of a timestamp and two energy readings;  *)
(* the histories the callers pass are built from a few shapes.             *)
(***************************************************************************)
Hour(ts) == ts % 24
Weekday(ts) == (ts \div 24) % 7

\* a shape: where the history starts, the hours between two samples, the
\* consumption pattern, and the sample counts it is used with (at: two
\* samples as predict's argument; mid: these counts in MinTrain..BacktestMin;
\* big: the counts just above BacktestMin; deep: a count above
\* BacktestMin + HoldOut, so that the backtest's predictor backtests too)
Shapes ==
    { [t0 |-> 0,   stride |-> 1,  pat |-> "flat",     at |-> TRUE,
       mid |-> {MinTrain, MinTrain + 1, BacktestMin}, big |-> TRUE, deep |-> TRUE],
      [t0 |-> 166, stride |-> 1,  pat |-> "low",      at |-> TRUE,
       mid |-> {}, big |-> FALSE, deep |-> FALSE],
      [t0 |-> 0,   stride |-> 1,  pat |-> "high",     at |-> TRUE,
       mid |-> {MinTrain + 1}, big |-> FALSE, deep |-> FALSE],
      [t0 |-> 0,   stride |-> 1,  pat |-> "zero",     at |-> FALSE,
       mid |-> {}, big |-> TRUE, deep |-> FALSE],
      [t0 |-> 5,   stride |-> 1,  pat |-> "daynight", at |-> FALSE,
       mid |-> {BacktestMin}, big |-> TRUE, deep |-> TRUE],
      [t0 |-> 0,   stride |-> 24, pat |-> "weekday",  at |-> FALSE,
       mid |-> {MinTrain + 1}, big |-> FALSE, deep |-> FALSE],
      [t0 |-> 0,   stride |-> 1,  pat |-> "lastzero", at |-> TRUE,
       mid |-> {}, big |-> TRUE, deep |-> FALSE],
      [t0 |-> 0,   stride |-> 2,  pat |-> "sparse",   at |-> FALSE,
       mid |-> {MinTrain}, big |-> FALSE, deep |-> FALSE],
      [t0 |-> 0,   stride |-> 1,  pat |-> "drop",     at |-> FALSE,
       mid |-> {}, big |-> TRUE, deep |-> FALSE],
      [t0 |-> 0,   stride |-> 1,  pat |-> "crash",    at |-> FALSE,
       mid |-> {}, big |-> TRUE, deep |-> FALSE] }

\* energy_consumed of the i-th of n samples, taken at ts
Consumed(pat, i, n, ts) ==
    CASE pat = "flat"     -> 50
      [] pat = "low"      -> 5
      [] pat = "high"     -> 250
      [] pat = "zero"     -> 0
      [] pat = "daynight" -> IF Hour(ts) < 12 THEN 40 ELSE 120
      [] pat = "weekday"  -> IF Weekday(ts) < 5 THEN 90 ELSE 30
      [] pat = "lastzero" -> IF i = n THEN 0 ELSE 100
      [] pat = "sparse"   -> IF i % 4 = 0 THEN 1 ELSE 0
      [] pat = "drop"     -> IF i > n - 24 THEN 80 ELSE 100
      [] pat = "crash"    -> IF i > n - 24 THEN 10 ELSE 100

MkData(n, sh) ==
    [i \in 1..n |->
        LET ts == sh.t0 + (i - 1) * sh.stride
        IN  [timestamp |-> ts,
             energy_produced |-> R(60),
             energy_consumed |-> R(Consumed(sh.pat, i, n, ts))]]

SmallCounts == {0, 1, MinTrain - 1}
BigCounts == BacktestMin + 1 .. BacktestMin + MaxExtra
DeepCount == BacktestMin + HoldOut + 1

\* what train is called with
Histories ==
    {MkData(n, sh) : n \in SmallCounts, sh \in Shapes}
        \cup UNION {{MkData(n, sh) : n \in sh.mid} : sh \in Shapes}
        \cup {MkData(n, sh) : n \in BigCounts, sh \in {x \in Shapes : x.big}}
        \cup {MkData(DeepCount, sh) : sh \in {x \in Shapes : x.deep}}

\* what predict is called with: nothing, or the two latest samples
CurrentInputs == {<<>>} \cup {MkData(2, sh) : sh \in {x \in Shapes : x.at}}

\* draws of np.random.normal(1.0, 0.05): any real, negative included
NoiseValues == {<<-1, 1>>, <<21, 20>>, <<40, 1>>}

\* values of datetime.now()
NowValues == {23, 100}

(***************************************************************************)
(* EnergyPredictor (ml_predictor.py).                                      *)
(***************************************************************************)
\* __init__
EnergyPredictor ==
    [is_trained |-> FALSE,
     hourly_patterns |-> None,
     daily_patterns |-> None,
     baseline |-> None,
     validation_score |-> None]

\* dict.get(key, default)
Get(dict, key, default) == IF key \in DOMAIN dict THEN dict[key] ELSE default

\* consumption[i] / max(1, self.baseline)
Relative(c, baseline) == RDiv(c, RMax(R(1), baseline))

\* the key a sample is filed under: ts.weekday() in daily_patterns, ts.hour
\* in hourly_patterns and in peak_hours
KeyOf(field, ts) == IF field = "daily_patterns" THEN Weekday(ts) ELSE Hour(ts)

\* the list a pattern dict holds for one key before averaging: the relative
\* values of the samples that fall under the key, in order
RelativeList(data, baseline, field, k) ==
    LET Under(d) == KeyOf(field, d.timestamp) = k
        sel == SelectSeq(data, Under)
    IN  [i \in 1..Len(sel) |-> Relative(sel[i].energy_consumed, baseline)]

\* averaging one entry: np.mean of the list, 1.0 for an empty list
AveragePattern(list) == IF list # <<>> THEN RMean(list) ELSE R(1)

\* hourly_patterns / daily_patterns after the averaging loop
Patterns(data, baseline, field) ==
    [k \in {KeyOf(field, data[i].timestamp) : i \in 1..Len(data)} |->
        AveragePattern(RelativeList(data, baseline, field, k))]

BacktestPrediction_NoDay(temp, ts) ==
    LET hour_factor == Get(temp.hourly_patterns, Hour(ts), R(1))
    IN  RMul(temp.baseline, hour_factor)

\* the backtest's prediction for one holdout timestamp
BacktestPrediction(temp, ts) ==
    LET hour_factor == Get(temp.hourly_patterns, Hour(ts), R(1))
        day_factor == Get(temp.daily_patterns, Weekday(ts), R(1))
    IN  RMul(RMul(temp.baseline, hour_factor), day_factor)

\* one element of np.abs((actual - predicted) / actual): numpy divides by
\* zero without raising, giving inf, or nan for 0 / 0
AbsRelError(actual, predicted) ==
    IF actual[1] = 0
    THEN IF predicted[1] = 0 THEN NaN ELSE Inf
    ELSE RAbs(RDiv(RSub(actual, predicted), actual))

\* np.mean(...) * 100 over a list that may hold inf and nan
Mape(errs) ==
    IF \E i \in 1..Len(errs) : errs[i] = NaN THEN NaN
    ELSE IF \E i \in 1..Len(errs) : errs[i] = Inf THEN Inf
    ELSE RMul(RMean(errs), R(100))

\* max(0, 100 - mape): 100 - inf is -inf, 100 - nan is nan, and Python's
\* max keeps its first argument unless the second compares greater
Accuracy(mape) ==
    IF mape \in {Inf, NaN} THEN R(0)
    ELSE RMax(R(0), RSub(R(100), mape))

InsufficientData_ScoreZero(self) ==
    [self |-> [self EXCEPT !.validation_score = R(0)], ret |-> R(0), backtest |-> FALSE,
     fitted |-> <<>>]

InsufficientData_Reset(self) ==
    [self |-> EnergyPredictor, ret |-> R(0), backtest |-> FALSE, fitted |-> <<>>]

\* the early return for too few samples: nothing is assigned
InsufficientData(self) ==
    [self |-> self, ret |-> R(0), backtest |-> FALSE, fitted |-> <<>>]

RunsBacktest_Inclusive(n) == n >= BacktestMin

\* whether the holdout backtest runs
RunsBacktest(n) == n > BacktestMin

RECURSIVE train(_, _)
train_FitOnTrainData(self, historical_data) ==
    LET n == Len(historical_data)
    IN
    IF n < MinTrain
    THEN InsufficientData(self)
    ELSE
    LET train_data == SubSeq(historical_data, 1, n - HoldOut)
        test_data == SubSeq(historical_data, n - HoldOut + 1, n)
        fitted == IF RunsBacktest(n) THEN train_data ELSE historical_data
        baseline == RMean([i \in 1..Len(fitted) |-> fitted[i].energy_consumed])
        temp_run == train(EnergyPredictor, train_data)
        temp_predictor == temp_run.self
        errs == [i \in 1..Len(test_data) |->
                    AbsRelError(test_data[i].energy_consumed,
                                BacktestPrediction(temp_predictor,
                                                   test_data[i].timestamp))]
        score == IF RunsBacktest(n)
                 THEN Accuracy(Mape(errs))
                 ELSE R(DefaultScore)
    IN  [self |-> [is_trained |-> TRUE,
                   hourly_patterns |-> Patterns(fitted, baseline, "hourly_patterns"),
                   daily_patterns |-> Patterns(fitted, baseline, "daily_patterns"),
                   baseline |-> baseline,
                   validation_score |-> score],
         ret |-> score,
         backtest |-> RunsBacktest(n),
         fitted |-> IF RunsBacktest(n) THEN <<n>> \o temp_run.fitted ELSE <<n>>]

\* train(self, historical_data): the predictor after the call, the value
\* returned, whether the holdout backtest ran, and the sample counts of the
\* calls that fitted a profile, this one first and then those it made
train(self, historical_data) ==
    LET n == Len(historical_data)
    IN
    IF n < MinTrain
    THEN InsufficientData(self)
    ELSE
    LET consumption == [i \in 1..n |-> historical_data[i].energy_consumed]
        baseline == RMean(consumption)
        hourly == Patterns(historical_data, baseline, "hourly_patterns")
        daily == Patterns(historical_data, baseline, "daily_patterns")
        train_data == SubSeq(historical_data, 1, n - HoldOut)
        test_data == SubSeq(historical_data, n - HoldOut + 1, n)
        temp_run == train(EnergyPredictor, train_data)
        temp_predictor == temp_run.self
        errs == [i \in 1..Len(test_data) |->
                    AbsRelError(test_data[i].energy_consumed,
                                BacktestPrediction(temp_predictor,
                                                   test_data[i].timestamp))]
        score == IF RunsBacktest(n)
                 THEN Accuracy(Mape(errs))
                 ELSE R(DefaultScore)
    IN  [self |-> [is_trained |-> TRUE,
                   hourly_patterns |-> hourly,
                   daily_patterns |-> daily,
                   baseline |-> baseline,
                   validation_score |-> score],
         ret |-> score,
         backtest |-> RunsBacktest(n),
         fitted |-> IF RunsBacktest(n) THEN <<n>> \o temp_run.fitted ELSE <<n>>]

\* train on each history with at least MinTrain samples, worked out once:
\* past its guard train assigns every field of self before it reads one,
\* so the outcome is that of a fresh instance
FittedRuns ==
    {<<h, train(EnergyPredictor, h)>> : h \in {x \in Histories : Len(x) >= MinTrain}}

Fitted ==
    [h \in {x \in Histories : Len(x) >= MinTrain}
        |-> (CHOOSE run \in FittedRuns : run[1] = h)[2]]

\* entries of the old mapping kept where the new one has none
Merged(old, new) ==
    IF old = None THEN new
    ELSE [k \in DOMAIN old \cup DOMAIN new |-> IF k \in DOMAIN new THEN new[k] ELSE old[k]]

Call_train_Merged(self, data) ==
    IF Len(data) < MinTrain THEN train(self, data)
    ELSE LET run == Fitted[data]
         IN  [run EXCEPT !.self.hourly_patterns = Merged(self.hourly_patterns, @),
                         !.self.daily_patterns = Merged(self.daily_patterns, @)]

\* predictor.train(data)
Call_train(self, data) ==
    IF Len(data) < MinTrain THEN train(self, data) ELSE Fitted[data]

Clamp_NoFloor(prediction) == RMin(R(ClampHi), prediction)

\* max(10, min(200, prediction))
Clamp(prediction) == RMax(R(ClampLo), RMin(R(ClampHi), prediction))

PredictStep_SameDay(self, last_timestamp, i, random_factor) ==
    LET next_timestamp == last_timestamp + (i + 1)
        hour_factor == Get(self.hourly_patterns, Hour(next_timestamp), R(1))
        day_factor == Get(self.daily_patterns, Weekday(last_timestamp), R(1))
        prediction == RMul(RMul(RMul(self.baseline, hour_factor), day_factor),
                           random_factor)
    IN  Round1(Clamp(prediction))

\* one step of the trained path
PredictStep(self, last_timestamp, i, random_factor) ==
    LET next_timestamp == last_timestamp + (i + 1)
        hour_factor == Get(self.hourly_patterns, Hour(next_timestamp), R(1))
        day_factor == Get(self.daily_patterns, Weekday(next_timestamp), R(1))
        prediction == RMul(RMul(RMul(self.baseline, hour_factor), day_factor),
                           random_factor)
    IN  Round1(Clamp(prediction))

Repeat_OneMore(value, horizon) == [i \in 1..horizon + 1 |-> value]

\* [value] * horizon
Repeat(value, horizon) == [i \in 1..horizon |-> value]

FlatForecast_Clamped(current_data, horizon) ==
    IF current_data # <<>>
    THEN LET latest_value == current_data[Len(current_data)].energy_consumed
         IN  Repeat(RMax(R(ClampLo), RMin(R(ClampHi), latest_value)), horizon)
    ELSE Repeat(R(DefaultFlat), horizon)

\* the untrained path: the latest value, or the default, repeated
FlatForecast(current_data, horizon) ==
    IF current_data # <<>>
    THEN LET latest_value == current_data[Len(current_data)].energy_consumed
         IN  Repeat(latest_value, horizon)
    ELSE Repeat(R(DefaultFlat), horizon)

\* predict(self, current_data, horizon); now is datetime.now(), noise the
\* draws of np.random.normal, one per step
predict(self, current_data, horizon, now, noise) ==
    IF ~self.is_trained
    THEN FlatForecast(current_data, horizon)
    ELSE
    LET last_timestamp ==
            IF current_data # <<>>
            THEN current_data[Len(current_data)].timestamp
            ELSE now
    IN  [i \in 1..horizon |->
            PredictStep(self, last_timestamp, i - 1, noise[i])]

(***************************************************************************)
(* One predictor instance, called sequentially.                            *)
(***************************************************************************)
VARIABLES
    predictor,  \* the instance
    op,         \* the last call: "init", "train" or "predict"
    samples,    \* its sample argument
    horizon,    \* its horizon argument (predict)
    ret,        \* the value it returned
    backtest,   \* whether it ran the holdout backtest (train)
    before,     \* the instance as it was when the call started
    drawn,      \* what the call read from the noise source and the clock
    trainer,    \* a thread inside train: where it is, and its locals
    reader,     \* a thread inside predict: where it is, and its locals
    report,     \* the TrendReport analyze_trends returned last
    insights,   \* the list get_trend_insights returned last
    request,    \* the last request to /api/hardware/data
    rows,       \* the EnergyData rows that requests have stored
    response    \* the response to the last hardware request

vars ==
    <<predictor, op, samples, horizon, ret, backtest, before, drawn, trainer,
      reader, report, insights, request, rows, response>>

hardware == <<request, rows, response>>

calls == <<op, samples, horizon, ret, backtest, before, drawn, report, insights>>

\* a call that read neither the noise source nor the clock
NoDraws == [noise |-> <<>>, now |-> <<>>]

IdleTrainer == [pc |-> "idle", data |-> <<>>, field |-> "", i |-> 0]

\* the values the last completed step of predict was computed from
NoReads ==
    [hour_factor |-> None, day_factor |-> None, baseline |-> None, timestamp |-> -1]

IdleReader ==
    [pc |-> "idle", current_data |-> <<>>, horizon |-> 0, i |-> 0,
     last_timestamp |-> 0, hour_factor |-> None, day_factor |-> None,
     used |-> NoReads, out |-> <<>>]

Init ==
    /\ predictor = EnergyPredictor
    /\ op = "init"
    /\ samples = <<>>
    /\ horizon = 0
    /\ ret = None
    /\ backtest = FALSE
    /\ before = EnergyPredictor
    /\ drawn = NoDraws
    /\ trainer = IdleTrainer
    /\ reader = IdleReader
    /\ report = None
    /\ insights = None
    /\ request = None
    /\ rows = <<>>
    /\ response = None

Train ==
    \E data \in Histories :
        LET r == Call_train(predictor, data)
        IN  /\ predictor' = r.self
            /\ op' = "train"
            /\ samples' = data
            /\ horizon' = 0
            /\ ret' = r.ret
            /\ backtest' = r.backtest
            /\ before' = predictor
            /\ drawn' = NoDraws
            /\ UNCHANGED <<trainer, reader, report, insights, hardware>>

\* datetime.now() is read on the trained path with no samples only
NowDraws(self, current_data) ==
    IF self.is_trained /\ current_data = <<>> THEN NowValues ELSE {0}

ClockRead_Never(self, current_data, now) == <<>>

\* the instant datetime.now() returned, if the call read the clock
ClockRead(self, current_data, now) ==
    IF self.is_trained /\ current_data = <<>> THEN <<now>> ELSE <<>>

\* the draws of np.random.normal the call made: one per step on the
\* trained path, none on the flat path
NoiseRead(self, noise) == IF self.is_trained THEN noise ELSE <<>>

Predict_CachesScore ==
    \E data \in CurrentInputs, h \in 0..MaxHorizon :
        \E now \in NowDraws(predictor, data), noise \in [1..h -> NoiseValues] :
            /\ op' = "predict"
            /\ samples' = data
            /\ horizon' = h
            /\ ret' = predict(predictor, data, h, now, noise)
            /\ backtest' = FALSE
            /\ before' = predictor
            /\ drawn' = [noise |-> NoiseRead(predictor, noise),
                         now |-> ClockRead(predictor, data, now)]
            /\ predictor' = [predictor EXCEPT !.validation_score = R(0)]
            /\ UNCHANGED <<trainer, reader, report, insights, hardware>>

Predict ==
    \E data \in CurrentInputs, h \in 0..MaxHorizon :
        \E now \in NowDraws(predictor, data), noise \in [1..h -> NoiseValues] :
            /\ op' = "predict"
            /\ samples' = data
            /\ horizon' = h
            /\ ret' = predict(predictor, data, h, now, noise)
            /\ backtest' = FALSE
            /\ before' = predictor
            /\ drawn' = [noise |-> NoiseRead(predictor, noise),
                         now |-> ClockRead(predictor, data, now)]
            /\ UNCHANGED <<predictor, trainer, reader, report, insights, hardware>>

Next == Train \/ Predict

Spec == Init /\ [][Next]_vars

(***************************************************************************)
(* The same instance under a threaded host (app.run serves each request    *)
(* on its own thread, and the instance is module-level): one thread inside *)
(* train, one inside predict, interleaved at the reads and writes of the   *)
(* instance's fields.  Nothing in train or predict takes a lock.           *)
(***************************************************************************)
\* a dict entry that still holds its list of relative values; a triple, so
\* that it is no number
ListOf(items) == <<items, 0, 0>>
IsList(entry) == Len(entry) = 3
Items(entry) == entry[1]

\* the keys of a pattern dict in insertion order: by first occurrence
KeyOrder(data, field) ==
    LET firsts == {i \in 1..Len(data) :
                      \A j \in 1..(i - 1) :
                          KeyOf(field, data[j].timestamp) # KeyOf(field, data[i].timestamp)}
    IN  [n \in 1..Cardinality(firsts) |->
            KeyOf(field, data[CHOOSE i \in firsts :
                Cardinality({j \in firsts : j < i}) = n - 1].timestamp)]

\* the history the instance was trained on before the threads start, if
\* it was trained
ConcStart == {h \in Histories : Len(h) = MinTrain + 1 /\ h[1].energy_consumed = R(90)}

\* the histories the training thread is given
ConcHistories ==
    {h \in Histories :
        \/ Len(h) = MinTrain - 1 /\ h[1].energy_consumed = R(50)
        \/ Len(h) = MinTrain /\ h[1].energy_consumed = R(0)}

\* what the predicting thread is given
ConcCurrent == {x \in CurrentInputs : x # <<>> /\ x[1].energy_consumed = R(50)}

\* the draw of np.random.normal in the threaded runs
ConcNoise == <<21, 20>>

InitConc ==
    /\ predictor \in {EnergyPredictor} \cup {Fitted[h].self : h \in ConcStart}
    /\ op = "init"
    /\ samples = <<>>
    /\ horizon = 0
    /\ ret = None
    /\ backtest = FALSE
    /\ before = EnergyPredictor
    /\ drawn = NoDraws
    /\ trainer = IdleTrainer
    /\ reader = IdleReader
    /\ report = None
    /\ insights = None
    /\ request = None
    /\ rows = <<>>
    /\ response = None

\* train is entered; with too few samples it returns at once
TrainEnter ==
    /\ trainer.pc = "idle"
    /\ \E data \in ConcHistories :
          trainer' = [trainer EXCEPT
                         !.data = data,
                         !.pc = IF Len(data) < MinTrain THEN "done" ELSE "baseline"]
    /\ UNCHANGED <<predictor, reader, calls, hardware>>

\* self.baseline = np.mean(consumption)
TrainBaseline ==
    /\ trainer.pc = "baseline"
    /\ predictor' = [predictor EXCEPT
          !.baseline = RMean([i \in 1..Len(trainer.data) |->
                                 trainer.data[i].energy_consumed])]
    /\ trainer' = [trainer EXCEPT !.pc = "new", !.field = "hourly_patterns"]
    /\ UNCHANGED <<reader, calls, hardware>>

\* self.hourly_patterns = {}   /   self.daily_patterns = {}
TrainNewDict ==
    /\ trainer.pc = "new"
    /\ predictor' = [predictor EXCEPT ![trainer.field] = <<>>]
    /\ trainer' = [trainer EXCEPT !.pc = "append", !.i = 1]
    /\ UNCHANGED <<reader, calls, hardware>>

\* one iteration of the loop that appends the relative values
TrainAppend ==
    /\ trainer.pc = "append"
    /\ LET d == trainer.data[trainer.i]
           k == KeyOf(trainer.field, d.timestamp)
           dict == predictor[trainer.field]
           rel == Relative(d.energy_consumed, predictor.baseline)
           items == IF k \in DOMAIN dict THEN Items(dict[k]) ELSE <<>>
       IN  predictor' = [predictor EXCEPT
               ![trainer.field] = [x \in DOMAIN dict \cup {k} |->
                                      IF x = k THEN ListOf(Append(items, rel))
                                      ELSE dict[x]]]
    /\ trainer' = IF trainer.i < Len(trainer.data)
                  THEN [trainer EXCEPT !.i = @ + 1]
                  ELSE [trainer EXCEPT !.pc = "average", !.i = 1]
    /\ UNCHANGED <<reader, calls, hardware>>

\* one iteration of the loop that replaces each list by its mean
TrainAverage ==
    /\ trainer.pc = "average"
    /\ LET order == KeyOrder(trainer.data, trainer.field)
           k == order[trainer.i]
       IN  /\ predictor' = [predictor EXCEPT
                  ![trainer.field][k] = AveragePattern(Items(@))]
           /\ trainer' =
                  IF trainer.i < Len(order) THEN [trainer EXCEPT !.i = @ + 1]
                  ELSE IF trainer.field = "hourly_patterns"
                  THEN [trainer EXCEPT !.pc = "new", !.field = "daily_patterns"]
                  ELSE [trainer EXCEPT !.pc = "validate"]
    /\ UNCHANGED <<reader, calls, hardware>>

\* the backtest works on a predictor of its own; the score is stored
TrainValidate ==
    /\ trainer.pc = "validate"
    /\ predictor' = [predictor EXCEPT
          !.validation_score = train(EnergyPredictor, trainer.data).ret]
    /\ trainer' = [trainer EXCEPT !.pc = "finish"]
    /\ UNCHANGED <<reader, calls, hardware>>

\* self.is_trained = True; return
TrainFinish ==
    /\ trainer.pc = "finish"
    /\ predictor' = [predictor EXCEPT !.is_trained = TRUE]
    /\ trainer' = [trainer EXCEPT !.pc = "done"]
    /\ UNCHANGED <<reader, calls, hardware>>

\* predict is entered and reads self.is_trained
PredictEnter ==
    /\ reader.pc = "idle"
    /\ \E data \in ConcCurrent, h \in 1..MaxHorizon :
        \E now \in NowDraws(predictor, data) :
          reader' =
              IF ~predictor.is_trained
              THEN [reader EXCEPT !.pc = "done", !.current_data = data,
                                  !.horizon = h, !.out = FlatForecast(data, h)]
              ELSE [reader EXCEPT !.pc = "hour", !.current_data = data,
                                  !.horizon = h, !.i = 0,
                                  !.last_timestamp =
                                      IF data # <<>> THEN data[Len(data)].timestamp
                                      ELSE now]
    /\ UNCHANGED <<predictor, trainer, calls, hardware>>

NextTimestamp == reader.last_timestamp + (reader.i + 1)

\* hour_factor = self.hourly_patterns.get(next_timestamp.hour, 1.0)
PredictReadHour ==
    /\ reader.pc = "hour"
    /\ reader' = [reader EXCEPT
          !.pc = "day",
          !.hour_factor = Get(predictor.hourly_patterns, Hour(NextTimestamp), R(1))]
    /\ UNCHANGED <<predictor, trainer, calls, hardware>>

\* day_factor = self.daily_patterns.get(next_timestamp.weekday(), 1.0)
PredictReadDay ==
    /\ reader.pc = "day"
    /\ reader' = [reader EXCEPT
          !.pc = "combine",
          !.day_factor = Get(predictor.daily_patterns, Weekday(NextTimestamp), R(1))]
    /\ UNCHANGED <<predictor, trainer, calls, hardware>>

\* a factor as numpy multiplies it: a list of one value is an array of one
\* value
AsFactor(entry) == IF IsList(entry) THEN Items(entry)[1] ELSE entry

\* prediction = self.baseline * hour_factor * day_factor * random_factor,
\* clamped and rounded.  A list of several values makes min() raise.
PredictCombine ==
    /\ reader.pc = "combine"
    /\ LET raises == \E e \in {reader.hour_factor, reader.day_factor} :
                        IsList(e) /\ Len(Items(e)) # 1
           prediction == RMul(RMul(RMul(predictor.baseline,
                                        AsFactor(reader.hour_factor)),
                                   AsFactor(reader.day_factor)),
                              ConcNoise)
           used == [hour_factor |-> reader.hour_factor,
                    day_factor |-> reader.day_factor,
                    baseline |-> predictor.baseline,
                    timestamp |-> NextTimestamp]
       IN  reader' =
               IF raises
               THEN [reader EXCEPT !.pc = "raised", !.used = used]
               ELSE [reader EXCEPT
                        !.used = used,
                        !.out = Append(@, Round1(Clamp(prediction))),
                        !.i = @ + 1,
                        !.pc = IF reader.i + 1 < reader.horizon
                               THEN "hour" ELSE "done"]
    /\ UNCHANGED <<predictor, trainer, calls, hardware>>

NextConc ==
    \/ TrainEnter
    \/ TrainBaseline
    \/ TrainNewDict
    \/ TrainAppend
    \/ TrainAverage
    \/ TrainValidate
    \/ TrainFinish
    \/ PredictEnter
    \/ PredictReadHour
    \/ PredictReadDay
    \/ PredictCombine

SpecConc == InitConc /\ [][NextConc]_vars

(***************************************************************************)
(* analyze_trends and get_trend_insights (utils.py).                       *)
(*                                                                         *)
(* np.std is a square root; the report holds its square, std2 (the         *)
(* population variance), and std > 20 is std2 > 400.  peak_hours is a      *)
(* dict: the model keeps it as the sequence of its items in insertion      *)
(* order.  A message is a tuple of its text and, for the peak alert, the   *)
(* hour put into it.                                                       *)
(***************************************************************************)
\* np.max / np.min of a non-empty list
RMaxOf(s) == CHOOSE x \in {s[i] : i \in 1..Len(s)} : \A i \in 1..Len(s) : RLe(s[i], x)
RMinOf(s) == CHOOSE x \in {s[i] : i \in 1..Len(s)} : \A i \in 1..Len(s) : RLe(x, s[i])

\* np.std(s) squared
Variance(s) ==
    LET m == RMean(s)
    IN  RMean([i \in 1..Len(s) |-> RMul(RSub(s[i], m), RSub(s[i], m))])

Statistics(values) ==
    [mean |-> RMean(values),
     max |-> RMaxOf(values),
     min |-> RMinOf(values),
     std2 |-> Variance(values)]

ZeroStatistics == [mean |-> R(0), max |-> R(0), min |-> R(0), std2 |-> R(0)]

\* the report for no data points
EmptyReport ==
    [statistics |-> [production |-> ZeroStatistics, consumption |-> ZeroStatistics],
     trend |-> "neutral",
     peak_hours |-> <<>>]

TrendFactor == <<105, 100>>

Trend_Inclusive(consumption_values) ==
    LET n == Len(consumption_values)
        first_half == SubSeq(consumption_values, 1, n \div 2)
        second_half == SubSeq(consumption_values, n \div 2 + 1, n)
    IN  IF n > 1
        THEN IF RLe(RMul(RMean(first_half), TrendFactor), RMean(second_half))
             THEN "increasing"
             ELSE IF RLe(RMul(RMean(second_half), TrendFactor), RMean(first_half))
             THEN "decreasing"
             ELSE "neutral"
        ELSE "neutral"

\* the trend of a series
Trend(consumption_values) ==
    LET n == Len(consumption_values)
        first_half == SubSeq(consumption_values, 1, n \div 2)
        second_half == SubSeq(consumption_values, n \div 2 + 1, n)
    IN  IF n > 1
        THEN IF RLt(RMul(RMean(first_half), TrendFactor), RMean(second_half))
             THEN "increasing"
             ELSE IF RLt(RMul(RMean(second_half), TrendFactor), RMean(first_half))
             THEN "decreasing"
             ELSE "neutral"
        ELSE "neutral"

\* peak_hours: every hour seen gets an entry, in the order the hours are
\* first seen, counting its samples above the consumption mean
PeakHours(data_points, mean) ==
    LET order == KeyOrder(data_points, "peak_hours")
    IN  [n \in 1..Len(order) |->
            [hour |-> order[n],
             count |-> Cardinality({i \in 1..Len(data_points) :
                          /\ Hour(data_points[i].timestamp) = order[n]
                          /\ RLt(mean, data_points[i].energy_consumed)})]]

analyze_trends(data_points) ==
    IF data_points = <<>>
    THEN EmptyReport
    ELSE
    LET production_values ==
            [i \in 1..Len(data_points) |-> data_points[i].energy_produced]
        consumption_values ==
            [i \in 1..Len(data_points) |-> data_points[i].energy_consumed]
        stats == [production |-> Statistics(production_values),
                  consumption |-> Statistics(consumption_values)]
    IN  [statistics |-> stats,
         trend |-> Trend(consumption_values),
         peak_hours |-> PeakHours(data_points, stats.consumption.mean)]

PeakItem_SmallestHour(peak_hours) ==
    peak_hours[CHOOSE i \in 1..Len(peak_hours) :
                  /\ \A j \in 1..Len(peak_hours) : peak_hours[j].count <= peak_hours[i].count
                  /\ \A j \in 1..Len(peak_hours) :
                        peak_hours[j].count = peak_hours[i].count
                            => peak_hours[i].hour <= peak_hours[j].hour]

\* max(peak_hours, key=peak_hours.get): the first item, in insertion order,
\* with the largest count
PeakItem(peak_hours) ==
    peak_hours[CHOOSE i \in 1..Len(peak_hours) :
                  /\ \A j \in 1..Len(peak_hours) : peak_hours[j].count <= peak_hours[i].count
                  /\ \A j \in 1..(i - 1) : peak_hours[j].count < peak_hours[i].count]

PeakMin == 3
VariabilityMin == 20
CapacityFactor == <<7, 10>>

TrendInsight(trend) ==
    IF trend = "increasing"
    THEN << [type |-> "warning",
             message |-> <<"Energy consumption is trending upward.">>] >>
    ELSE IF trend = "decreasing"
    THEN << [type |-> "success",
             message |-> <<"Energy consumption is trending downward.">>] >>
    ELSE <<>>

PeakInsight_Inclusive(peak_hours) ==
    IF peak_hours # <<>> /\ PeakItem(peak_hours).count >= PeakMin
    THEN << [type |-> "alert",
             message |-> <<"Consistent peak usage detected around",
                           PeakItem(peak_hours).hour>>] >>
    ELSE <<>>

PeakInsight(peak_hours) ==
    IF peak_hours # <<>> /\ PeakItem(peak_hours).count > PeakMin
    THEN << [type |-> "alert",
             message |-> <<"Consistent peak usage detected around",
                           PeakItem(peak_hours).hour>>] >>
    ELSE <<>>

VariabilityInsight(consumption) ==
    IF RLt(R(VariabilityMin * VariabilityMin), consumption.std2)
    THEN << [type |-> "warning",
             message |-> <<"High variability in energy consumption detected.">>] >>
    ELSE <<>>

CapacityInsight_Inclusive(statistics) ==
    IF RLe(statistics.production.mean,
           RMul(statistics.consumption.mean, CapacityFactor))
    THEN << [type |-> "alert",
             message |-> <<"Energy production is significantly below consumption.">>] >>
    ELSE <<>>

CapacityInsight(statistics) ==
    IF RLt(statistics.production.mean,
           RMul(statistics.consumption.mean, CapacityFactor))
    THEN << [type |-> "alert",
             message |-> <<"Energy production is significantly below consumption.">>] >>
    ELSE <<>>

StableInsight ==
    [type |-> "success",
     message |-> <<"Energy consumption patterns are stable and within expected parameters.">>]

get_trend_insights_PeakFirst(trend_analysis) ==
    LET found == PeakInsight(trend_analysis.peak_hours)
                    \o TrendInsight(trend_analysis.trend)
                    \o VariabilityInsight(trend_analysis.statistics.consumption)
                    \o CapacityInsight(trend_analysis.statistics)
    IN  IF found = <<>> THEN <<StableInsight>> ELSE found

get_trend_insights_Stable(trend_analysis) ==
    LET found == TrendInsight(trend_analysis.trend)
                    \o PeakInsight(trend_analysis.peak_hours)
                    \o VariabilityInsight(trend_analysis.statistics.consumption)
                    \o CapacityInsight(trend_analysis.statistics)
    IN  IF Len(found) <= 1 THEN <<StableInsight>> ELSE found

get_trend_insights(trend_analysis) ==
    LET found == TrendInsight(trend_analysis.trend)
                    \o PeakInsight(trend_analysis.peak_hours)
                    \o VariabilityInsight(trend_analysis.statistics.consumption)
                    \o CapacityInsight(trend_analysis.statistics)
    IN  IF found = <<>> THEN <<StableInsight>> ELSE found

\* the samples the short series are made of
SeriesSamples ==
    { [timestamp |-> 9,  energy_produced |-> R(60), energy_consumed |-> R(10)],
      [timestamp |-> 9,  energy_produced |-> R(60), energy_consumed |-> R(100)],
      [timestamp |-> 14, energy_produced |-> R(0),  energy_consumed |-> R(100)],
      [timestamp |-> 14, energy_produced |-> R(60), energy_consumed |-> R(21)],
      [timestamp |-> 38, energy_produced |-> R(0),  energy_consumed |-> R(10)] }

\* consumption series with a known split: constant, doubling, at the 5%
\* boundary on either side, of odd length, all zero, and one with an hour
\* that never exceeds the mean
SplitSeries ==
    { <<10>>, <<0, 0>>, <<20, 21>>, <<21, 20>>, <<20, 22>>, <<22, 20>>,
      <<10, 30, 10>>, <<30, 10, 30>>, <<0, 0, 0>>, <<10, 10, 20, 20>>,
      <<10, 10, 10, 10, 10, 20, 20, 20, 20, 20>>,
      <<20, 20, 20, 20, 20, 10, 10, 10, 10, 10>> }

\* the data points of a consumption series: one sample every 7 hours
MkSeries(consumption) ==
    [i \in 1..Len(consumption) |->
        [timestamp |-> 7 * (i - 1),
         energy_produced |-> R(60),
         energy_consumed |-> R(consumption[i])]]

\* ten samples in which 14:00 and 9:00, in this order of first appearance,
\* are above the mean four times each, and 3:00 never
TiedSeries ==
    [i \in 1..10 |->
        [timestamp |-> IF i > 8 THEN 24 * i + 3
                       ELSE IF i % 2 = 1 THEN 24 * i + 14 ELSE 24 * i + 9,
         energy_produced |-> R(60),
         energy_consumed |-> IF i > 8 THEN R(0) ELSE R(100)]]

\* what analyze_trends is called with
TrendInputs ==
    Histories
        \cup UNION {[1..n -> SeriesSamples] : n \in 0..MaxSeries}
        \cup {MkSeries(c) : c \in SplitSeries}
        \cup {TiedSeries}

\* analyze_trends on each input, worked out once: it is a pure function
ReportRuns == {<<data, analyze_trends(data)>> : data \in TrendInputs}

Reports == [data \in TrendInputs |-> (CHOOSE run \in ReportRuns : run[1] = data)[2]]

\* trend_analysis = analyze_trends(data_points), in a request of its own:
\* the insights of an earlier request are gone
Analyze ==
    /\ \E data \in TrendInputs :
          /\ op' = "analyze"
          /\ samples' = data
          /\ report' = Reports[data]
    /\ insights' = None
    /\ UNCHANGED <<predictor, horizon, ret, backtest, before, drawn, trainer, reader,
                   hardware>>

Insights ==
    /\ op = "analyze"
    /\ op' = "insights"
    /\ insights' = get_trend_insights(report)
    /\ UNCHANGED <<predictor, samples, horizon, ret, backtest, before, drawn,
                   trainer, reader, report, hardware>>

\* TrendReports handed to get_trend_insights directly: it is a function of
\* the report alone
PeakSamples ==
    { <<>>,
      <<[hour |-> 9, count |-> 0]>>,
      <<[hour |-> 9, count |-> 3]>>,
      <<[hour |-> 9, count |-> 5], [hour |-> 14, count |-> 2]>>,
      <<[hour |-> 14, count |-> 2], [hour |-> 9, count |-> 5]>>,
      <<[hour |-> 9, count |-> 4], [hour |-> 14, count |-> 4]>>,
      <<[hour |-> 14, count |-> 4], [hour |-> 9, count |-> 4]>> }

MeanSamples == { <<60, 10>>, <<7, 10>>, <<6, 10>>, <<0, 0>> }

VarianceSamples == { R(0), R(400), R(401) }

ReportOf(trend, peak_hours, means, variance) ==
    [statistics |->
        [production |-> [mean |-> R(means[1]), max |-> R(means[1]),
                         min |-> R(means[1]), std2 |-> R(0)],
         consumption |-> [mean |-> R(means[2]), max |-> R(means[2]),
                          min |-> R(means[2]), std2 |-> variance]],
     trend |-> trend,
     peak_hours |-> peak_hours]

ReportSamples ==
    {ReportOf(trend, peak_hours, means, variance) :
        trend \in {"increasing", "decreasing", "neutral"},
        peak_hours \in PeakSamples,
        means \in MeanSamples,
        variance \in VarianceSamples}

\* get_trend_insights(trend_analysis) on a report of the caller's
InsightsOf ==
    /\ \E trend_analysis \in ReportSamples :
          /\ op' = "insights_of"
          /\ samples' = <<>>
          /\ report' = trend_analysis
          /\ insights' = get_trend_insights(trend_analysis)
    /\ UNCHANGED <<predictor, horizon, ret, backtest, before, drawn, trainer, reader,
                   hardware>>

NextTrend == Analyze \/ Insights \/ InsightsOf

SpecTrend == Init /\ [][NextTrend]_vars

(***************************************************************************)
(* Python floats.  The voltage thresholds are products of the integer      *)
(* nominal voltage and a decimal literal, computed in IEEE 754 binary64.   *)
(* A float is [sig, exp]: sig the 53 significand bits, most significant    *)
(* (a 1) first, read as a natural number, and the value is sig * 2^exp.    *)
(***************************************************************************)
SigBits == 53

\* the bits of a natural number, most significant first
RECURSIVE BitsOf(_)
BitsOf(n) == IF n = 0 THEN <<>> ELSE Append(BitsOf(n \div 2), n % 2)

Zeros(k) == [i \in 1..k |-> 0]

\* a >= b, for naturals in bits without leading zeros
GeBits(a, b) ==
    IF Len(a) # Len(b) THEN Len(a) > Len(b)
    ELSE \/ a = b
         \/ \E i \in 1..Len(a) : a[i] > b[i] /\ \A j \in 1..(i - 1) : a[j] = b[j]

\* 2^i mod d for i up to 54, through two powers that fit a machine integer
PowerMod(i, d) == ((2^(i \div 2) % d) * (2^(i - i \div 2) % d)) % d

\* what remains of r / d, for r < d, after i bits of long division
Remainder(r, d, i) == (r * PowerMod(i, d)) % d

\* long division: the next k bits of r / d for r < d, and what remains
Quotient(r, d, k) ==
    [bits |-> [i \in 1..k |-> (2 * Remainder(r, d, i - 1)) \div d],
     rem |-> Remainder(r, d, k)]

\* bits + 1: the last 0 becomes 1 and the 1s after it become 0
Increment(bits) ==
    LET zeros == {i \in 1..Len(bits) : bits[i] = 0}
    IN  IF zeros = {} THEN <<1>> \o Zeros(Len(bits))
        ELSE LET p == CHOOSE i \in zeros : \A j \in zeros : j <= i
             IN  SubSeq(bits, 1, p - 1) \o <<1>> \o Zeros(Len(bits) - p)

\* the low Len(bits) bits of bits * n + carry, and the carry out of them;
\* the high half takes the carry of the low half, which is worked out
\* before the high half is entered
RECURSIVE MulLow(_, _, _)
MulLow(bits, n, carry) ==
    IF carry < 0 \/ bits = <<>> THEN [bits |-> <<>>, carry |-> carry]
    ELSE IF Len(bits) = 1
    THEN [bits |-> <<(bits[1] * n + carry) % 2>>, carry |-> (bits[1] * n + carry) \div 2]
    ELSE LET m == Len(bits) \div 2
             low == MulLow(SubSeq(bits, m + 1, Len(bits)), n, carry)
             high == MulLow(SubSeq(bits, 1, m), n, low.carry)
         IN  [bits |-> high.bits \o low.bits, carry |-> high.carry]

\* bits * n + carry, for a small natural n
MulBits(bits, n, carry) ==
    LET product == MulLow(bits, n, carry)
    IN  BitsOf(product.carry) \o product.bits

\* the float nearest to bits * 2^exp: round to nearest, ties to even
RoundFloat(bits, exp) ==
    LET n == Len(bits)
    IN  IF n <= SigBits
        THEN [sig |-> bits \o Zeros(SigBits - n), exp |-> exp - (SigBits - n)]
        ELSE LET kept == SubSeq(bits, 1, SigBits)
                 tail == SubSeq(bits, SigBits + 1, n)
                 sticky == \E i \in 2..Len(tail) : tail[i] = 1
                 up == tail[1] = 1 /\ (sticky \/ kept[SigBits] = 1)
                 sum == IF up THEN Increment(kept) ELSE kept
             IN  IF Len(sum) > SigBits
                 THEN [sig |-> SubSeq(sum, 1, SigBits), exp |-> exp + (n - SigBits) + 1]
                 ELSE [sig |-> sum, exp |-> exp + (n - SigBits)]

\* the float a decimal literal p / q denotes (1.1 is 11 / 10), times 2^shift
RECURSIVE Literal(_, _, _)
Literal(p, q, shift) ==
    IF p >= 2 * q THEN Literal(p, 2 * q, shift + 1)
    ELSE IF p < q THEN Literal(2 * p, q, shift - 1)
    ELSE LET d == Quotient(p - q, q, SigBits)
         IN  RoundFloat(<<1>> \o d.bits \o <<IF d.rem > 0 THEN 1 ELSE 0>>,
                        shift - SigBits - 1)

\* n * x for an int n > 0 and a float x: n converts exactly, the product
\* is rounded
IntTimesFloat(n, x) == RoundFloat(MulBits(x.sig, n, 0), x.exp)

\* v >= x and v <= x for an integer-valued v > 0 and a float x
Scaled(v, x) == BitsOf(v) \o Zeros(IF x.exp < 0 THEN -x.exp ELSE 0)
ScaledSig(x) == x.sig \o Zeros(IF x.exp > 0 THEN x.exp ELSE 0)
GeFloat(v, x) == GeBits(Scaled(v, x), ScaledSig(x))
LeFloat(v, x) == GeBits(ScaledSig(x), Scaled(v, x))

(***************************************************************************)
(* The hardware endpoints: POST /api/hardware/data stores one EnergyData   *)
(* row per accepted request and classifies its voltage; GET                *)
(* /api/hardware/config returns the monitoring parameters.  A value that   *)
(* may be None is a sequence: <<>> for None, <<x>> for x.                   *)
(***************************************************************************)
MaxRows == 1

Nothing == <<>>
Some(x) == <<x>>

nominal_voltage == 220

high_voltage_threshold == IntTimesFloat(nominal_voltage, Literal(11, 10, 0))
low_voltage_threshold == IntTimesFloat(nominal_voltage, Literal(9, 10, 0))
critical_high_threshold == IntTimesFloat(nominal_voltage, Literal(115, 100, 0))
critical_low_threshold == IntTimesFloat(nominal_voltage, Literal(85, 100, 0))

Provided_Inclusive(voltage) == voltage >= 0

\* if voltage > 0
Provided(voltage) == voltage > 0

\* the alert of a voltage reading: its message and its level
VoltageAlert(voltage) ==
    IF ~Provided(voltage)
    THEN [alert_message |-> Nothing, alert_level |-> Nothing]
    ELSE IF GeFloat(voltage, critical_high_threshold)
    THEN [alert_message |-> Some(<<"CRITICAL HIGH VOLTAGE DETECTED", voltage>>),
          alert_level |-> Some("critical")]
    ELSE IF GeFloat(voltage, high_voltage_threshold)
    THEN [alert_message |-> Some(<<"High voltage condition", voltage>>),
          alert_level |-> Some("warning")]
    ELSE IF LeFloat(voltage, critical_low_threshold)
    THEN [alert_message |-> Some(<<"CRITICAL LOW VOLTAGE DETECTED", voltage>>),
          alert_level |-> Some("critical")]
    ELSE IF LeFloat(voltage, low_voltage_threshold)
    THEN [alert_message |-> Some(<<"Low voltage condition", voltage>>),
          alert_level |-> Some("warning")]
    ELSE [alert_message |-> Nothing, alert_level |-> Nothing]

\* x if x > 0 else None
IfPositive(x) == IF x > 0 THEN Some(x) ELSE Nothing

\* data.get(field, 0)
Field(data, field) == IF field \in data.present THEN data[field] ELSE 0

\* min(100, (energy_consumed / energy_produced) * 100), or 0
Efficiency(energy_produced, energy_consumed) ==
    IF energy_produced > 0
    THEN RMin(R(100), RMul(RDiv(R(energy_consumed), R(energy_produced)), R(100)))
    ELSE R(0)

required_fields == <<"energy_produced", "energy_consumed", "current_load">>

\* the first required field the body lacks, if any
MissingField(data) ==
    LET lacking == {i \in 1..Len(required_fields) : required_fields[i] \notin data.present}
    IN  IF lacking = {} THEN Nothing
        ELSE Some(required_fields[CHOOSE i \in lacking : \A j \in lacking : i <= j])

ErrorResponse(code, message) ==
    [code |-> code, status |-> "error", message |-> message,
     data_id |-> Nothing, alert |-> Nothing, config |-> Nothing]

\* the voltage readings sent: none, the sentinel, and values on and around
\* each threshold
Readings ==
    { -5, 0, 1, 186, 187, 188, 197, 198, 199, 220, 230, 241, 242, 243, 252,
      253, 254, 300 }

Keys == {"", "wrong", "dev_hardware_key"}

NoBody ==
    [present |-> {}, energy_produced |-> 0, energy_consumed |-> 0,
     current_load |-> 0, voltage |-> 0, facility_id |-> 0]

\* the JSON bodies sent: none, one without current_load, one of a site that
\* produces nothing, and complete ones with and without a voltage and a
\* facility_id (with both, one reading only)
Bodies ==
    { NoBody,
      [present |-> {"energy_produced", "energy_consumed"}, energy_produced |-> 60,
       energy_consumed |-> 90, current_load |-> 0, voltage |-> 0, facility_id |-> 0],
      [present |-> {"energy_produced", "energy_consumed", "current_load"},
       energy_produced |-> 0, energy_consumed |-> 30, current_load |-> 40,
       voltage |-> 0, facility_id |-> 0] }
    \cup
    UNION {
      { [present |-> {"energy_produced", "energy_consumed", "current_load"} \cup optional,
         energy_produced |-> 60, energy_consumed |-> 30, current_load |-> 40,
         voltage |-> IF "voltage" \in optional THEN voltage ELSE 0,
         facility_id |-> IF "facility_id" \in optional THEN 7 ELSE 0] :
          voltage \in {v \in Readings : "facility_id" \in optional => v = 242} } :
      optional \in SUBSET {"voltage", "facility_id"} }

\* the requests sent: every body under the right key, one under the others
Requests ==
    {[api_key |-> "dev_hardware_key", data |-> data] : data \in Bodies}
        \cup {[api_key |-> api_key, data |-> NoBody] : api_key \in Keys}

\* the facility table: empty, or holding facility 1
Facilities == {Nothing, Some(1)}

\* the request handled up to the point where the row is built: an error
\* response, or none
Rejection(api_key, data, facility) ==
    IF api_key = "" THEN Some(ErrorResponse(401, <<"Missing API key">>))
    ELSE IF api_key # "dev_hardware_key"
    THEN Some(ErrorResponse(401, <<"Invalid API key">>))
    ELSE IF data.present = {} THEN Some(ErrorResponse(400, <<"No data provided">>))
    ELSE IF MissingField(data) # Nothing
    THEN Some(ErrorResponse(400, <<"Missing required field", MissingField(data)[1]>>))
    ELSE IF Field(data, "facility_id") = 0 /\ facility = Nothing
    THEN Some(ErrorResponse(400, <<"No facility configured">>))
    ELSE Nothing

\* EnergyData(...) for an accepted request; the optional readings the
\* bodies never carry are stored as None
EnergyDataRow(data, facility) ==
    LET voltage == Field(data, "voltage")
        alert == VoltageAlert(voltage)
    IN  [energy_produced |-> Field(data, "energy_produced"),
         energy_consumed |-> Field(data, "energy_consumed"),
         efficiency |-> Efficiency(Field(data, "energy_produced"),
                                   Field(data, "energy_consumed")),
         current_load |-> Field(data, "current_load"),
         facility_id |-> IF Field(data, "facility_id") # 0
                         THEN Field(data, "facility_id") ELSE facility[1],
         voltage |-> IfPositive(voltage),
         current |-> IfPositive(Field(data, "current")),
         frequency |-> IfPositive(Field(data, "frequency")),
         power_factor |-> IfPositive(Field(data, "power_factor")),
         alert_message |-> alert.alert_message,
         alert_level |-> alert.alert_level]

\* the response to an accepted request: the alert is there if the message is
Accepted(row, data_id) ==
    [code |-> 200, status |-> "success", message |-> <<"Data received successfully">>,
     data_id |-> Some(data_id),
     alert |-> IF row.alert_message # Nothing
               THEN Some([message |-> row.alert_message[1], level |-> row.alert_level[1]])
               ELSE Nothing,
     config |-> Nothing]

\* POST /api/hardware/data
receive_hardware_data ==
    \E sent \in Requests, facility \in Facilities :
        LET rejection == Rejection(sent.api_key, sent.data, facility)
            row == EnergyDataRow(sent.data, facility)
        IN  /\ rejection = Nothing => Len(rows) < MaxRows
            /\ op' = "hardware_data"
            /\ request' = sent
            /\ rows' = IF rejection = Nothing THEN Append(rows, row) ELSE rows
            /\ response' = IF rejection = Nothing
                           THEN Accepted(row, Len(rows) + 1) ELSE rejection[1]
            /\ UNCHANGED <<predictor, samples, horizon, ret, backtest, before, drawn,
                           trainer, reader, report, insights>>

\* the monitoring parameters handed to the devices
HardwareConfig ==
    [nominal_voltage |-> 220,
     voltage_high_threshold |-> 242,
     voltage_low_threshold |-> 198,
     voltage_critical_high |-> 253,
     voltage_critical_low |-> 187]

\* GET /api/hardware/config
get_hardware_config ==
    \E api_key \in Keys, facility \in Facilities :
        /\ op' = "hardware_config"
        /\ request' = [api_key |-> api_key, data |-> NoBody]
        /\ response' =
              IF api_key # "dev_hardware_key"
              THEN ErrorResponse(401, <<"Authentication failed">>)
              ELSE IF facility = Nothing
              THEN ErrorResponse(400, <<"No facility configured">>)
              ELSE [code |-> 200, status |-> "success", message |-> <<>>,
                    data_id |-> Nothing, alert |-> Nothing,
                    config |-> Some(HardwareConfig)]
        /\ UNCHANGED <<predictor, samples, horizon, ret, backtest, before, drawn,
                       trainer, reader, report, insights, rows>>

\* the condition query parameter: the six the demo knows, and another
Conditions ==
    {"normal", "high_warning", "high_critical", "low_warning", "low_critical",
     "fluctuating", "surge"}

\* values of round(random.uniform(lo, hi), 1) for each condition: whole
\* volts of the range on either side of the ingestion thresholds; 220.0
\* where none is drawn
DemoVoltages(condition) ==
    CASE condition = "high_warning"  -> {240, 243}
      [] condition = "high_critical" -> {250, 253}
      [] condition = "low_warning"   -> {198, 205}
      [] condition = "low_critical"  -> {187, 190}
      [] condition = "fluctuating"   -> {199, 220, 241}
      [] OTHER                       -> {220}

\* the alert the demo attaches: chosen by the condition, and for a
\* fluctuating voltage by the bounds 240.0 and 200.0
DemoAlert(condition, voltage) ==
    CASE condition = "high_warning" ->
            [alert_message |-> Some(<<"High voltage condition", voltage>>),
             alert_level |-> Some("warning")]
      [] condition = "high_critical" ->
            [alert_message |-> Some(<<"CRITICAL HIGH VOLTAGE DETECTED", voltage>>),
             alert_level |-> Some("critical")]
      [] condition = "low_warning" ->
            [alert_message |-> Some(<<"Low voltage condition", voltage>>),
             alert_level |-> Some("warning")]
      [] condition = "low_critical" ->
            [alert_message |-> Some(<<"CRITICAL LOW VOLTAGE DETECTED", voltage>>),
             alert_level |-> Some("critical")]
      [] condition = "fluctuating" /\ voltage > 240 ->
            [alert_message |-> Some(<<"High voltage condition", voltage>>),
             alert_level |-> Some("warning")]
      [] condition = "fluctuating" /\ voltage < 200 ->
            [alert_message |-> Some(<<"Low voltage condition", voltage>>),
             alert_level |-> Some("warning")]
      [] OTHER -> [alert_message |-> Nothing, alert_level |-> Nothing]

\* EnergyData(...) of the demo; the readings drawn at random other than
\* the voltage are one value of their range each
DemoRow(condition, voltage, facility) ==
    LET alert == DemoAlert(condition, voltage)
    IN  [energy_produced |-> 60,
         energy_consumed |-> 30,
         efficiency |-> Efficiency(60, 30),
         current_load |-> 40,
         facility_id |-> facility[1],
         voltage |-> Some(voltage),
         current |-> Some(10),
         frequency |-> Some(50),
         power_factor |-> Some(1),
         alert_message |-> alert.alert_message,
         alert_level |-> alert.alert_level]

\* GET /api/debug/voltage-demo
debug_voltage_demo ==
    \E condition \in Conditions, facility \in Facilities, production \in BOOLEAN :
        \E voltage \in DemoVoltages(condition) :
            LET stored == ~production /\ facility # Nothing
                row == DemoRow(condition, voltage, facility)
            IN  /\ stored => Len(rows) < MaxRows
                /\ op' = "voltage_demo"
                /\ request' = [api_key |-> "", data |-> NoBody, condition |-> condition]
                /\ rows' = IF stored THEN Append(rows, row) ELSE rows
                /\ response' =
                      IF production
                      THEN ErrorResponse(403, <<"Debug endpoints not available in production">>)
                      ELSE IF facility = Nothing
                      THEN ErrorResponse(404, <<"No facility found">>)
                      ELSE [code |-> 200, status |-> "success",
                            message |-> <<"Voltage demo data generated", condition>>,
                            data_id |-> Nothing,
                            alert |-> IF row.alert_message # Nothing
                                      THEN Some([message |-> row.alert_message[1],
                                                 level |-> row.alert_level[1]])
                                      ELSE Nothing,
                            config |-> Nothing]
                /\ UNCHANGED <<predictor, samples, horizon, ret, backtest, before,
                               drawn, trainer, reader, report, insights>>

NextHardware == receive_hardware_data \/ get_hardware_config \/ debug_voltage_demo

SpecHardware == Init /\ [][NextHardware]_vars

(***************************************************************************)
(* The application flow (app.py): the dashboard and the predictions API    *)
(* share the module-level predictor; each request reads its look-back      *)
(* window from the database, retrains on it if it is long enough, and      *)
(* forecasts from it.  The forecast horizon, 24 in the program, is         *)
(* MaxHorizon steps here.                                                  *)
(***************************************************************************)
RetrainMin == 24

Retrains_Inclusive(data_points) == Len(data_points) >= RetrainMin

\* if len(data_points) > 24
Retrains(data_points) == Len(data_points) > RetrainMin

\* the look-back windows the requests find in the database
Windows ==
    {h \in Histories :
        /\ Len(h) \in {0, 1, RetrainMin, RetrainMin + 1, BacktestMin + 1}
        /\ h # <<>> => h[1].energy_consumed \in {R(50), R(250), R(40)}}

\* model_score = 0; if len(data_points) > 24: model_score =
\* predictor.train(data_points)
Retrain(self, data_points) ==
    IF Retrains(data_points)
    THEN Call_train(self, data_points)
    ELSE [self |-> self, ret |-> R(0), backtest |-> FALSE, fitted |-> <<>>]

\* a request served by one of the two handlers: train if the window is
\* long enough, then predict; model_score is the dashboard's local
Serve(route, shown) ==
    \E data_points \in Windows :
        \E run \in {Retrain(predictor, data_points)} :
            \E now \in NowDraws(run.self, data_points),
               noise \in [1..MaxHorizon -> NoiseValues] :
                \E predictions \in {predict(run.self, data_points, MaxHorizon, now, noise)} :
                    /\ predictor' = run.self
                    /\ op' = route
                    /\ samples' = data_points
                    /\ horizon' = MaxHorizon
                    /\ ret' = predictions
                    /\ backtest' = run.backtest
                    /\ before' = predictor
                    /\ drawn' = [noise |-> NoiseRead(run.self, noise),
                                 now |-> ClockRead(run.self, data_points, now)]
                    /\ request' = [route |-> route]
                    /\ response' = [code |-> 200,
                                    predictions |-> predictions,
                                    model_score |-> IF shown THEN Some(run.ret)
                                                    ELSE Nothing]
                    /\ UNCHANGED <<trainer, reader, report, insights, rows>>

\* GET /ml-dashboard
ml_dashboard == Serve("ml_dashboard", TRUE)

\* GET /api/predictions
get_predictions == Serve("get_predictions", FALSE)

NextApp == ml_dashboard \/ get_predictions

SpecApp == Init /\ [][NextApp]_vars

(***************************************************************************)
(* Claims about the insights, checked under SpecTrend.                     *)
(***************************************************************************)
\* get_trend_insights has returned for the report in `report`
Advised == op \in {"insights", "insights_of"}

\* the largest count of a peak_hours mapping
MaxCount(peak_hours) ==
    CHOOSE c \in {peak_hours[n].count : n \in 1..Len(peak_hours)} :
        \A n \in 1..Len(peak_hours) : peak_hours[n].count <= c

\* the conditions of rules 1-5 as the specification words them
RuleUp(r) == r.trend = "increasing"
RuleDown(r) == r.trend = "decreasing"
RulePeak(r) == r.peak_hours # <<>> /\ MaxCount(r.peak_hours) > 3
RuleVariability(r) == RLt(R(20 * 20), r.statistics.consumption.std2)
RuleCapacity(r) ==
    RLt(r.statistics.production.mean, RMul(<<7, 10>>, r.statistics.consumption.mean))

\* what an insight is about, and its type
KindOf(insight) ==
    LET head == insight.message[1]
    IN  CASE head = "Energy consumption is trending upward." -> "up"
          [] head = "Energy consumption is trending downward." -> "down"
          [] head = "Consistent peak usage detected around" -> "peak"
          [] head = "High variability in energy consumption detected." -> "variability"
          [] head = "Energy production is significantly below consumption." -> "capacity"
          [] OTHER -> "stable"

Labelled(list) == [i \in 1..Len(list) |-> <<list[i].type, KindOf(list[i])>>]

Only(cond, item) == IF cond THEN <<item>> ELSE <<>>

\* the insights of rules 1-5 that apply, in the fixed order
ClaimedRules(r) ==
    Only(RuleUp(r), <<"warning", "up">>)
        \o Only(RuleDown(r), <<"success", "down">>)
        \o Only(RulePeak(r), <<"alert", "peak">>)
        \o Only(RuleVariability(r), <<"warning", "variability">>)
        \o Only(RuleCapacity(r), <<"alert", "capacity">>)

IsRuleInsight(label) == label[2] # "stable"

\* C13: the insights of rules 1-5 in the output are those whose conditions
\* hold, each once, in the order trend, peak hour, variability, capacity,
\* with at most one trend insight
C13_FixedOrder ==
    Advised =>
        /\ SelectSeq(Labelled(insights), IsRuleInsight) = ClaimedRules(report)
        /\ Cardinality({i \in 1..Len(insights) :
                            KindOf(insights[i]) \in {"up", "down"}}) <= 1

C13_Witness ==
    /\ op = "insights_of"
    /\ Labelled(insights) = << <<"warning", "up">>, <<"alert", "peak">>,
                               <<"warning", "variability">>, <<"alert", "capacity">> >>

NoRuleFired(r) ==
    ~(RuleUp(r) \/ RuleDown(r) \/ RulePeak(r) \/ RuleVariability(r) \/ RuleCapacity(r))

StableAt == {i \in 1..Len(insights) : Labelled(insights)[i] = <<"success", "stable">>}

\* C14: the insight list is never empty; the success insight about stable
\* patterns is present exactly when none of rules 1-5 fired, and then it
\* is the only element
C14_StableFallback ==
    Advised =>
        /\ Len(insights) >= 1
        /\ (StableAt # {}) = NoRuleFired(report)
        /\ StableAt # {} => Len(insights) = 1

C14_Witness ==
    /\ op = "insights_of"
    /\ report.peak_hours # <<>>
    /\ NoRuleFired(report)
    /\ StableAt = {1}

PeakAlerts == {i \in 1..Len(insights) : KindOf(insights[i]) = "peak"}

\* C15: a peak-usage alert is emitted exactly when peak_hours is non-empty
\* and its largest count is above 3; there is one such alert and the hour
\* it names holds the largest count
C15_PeakAlert ==
    Advised =>
        /\ (PeakAlerts # {}) = RulePeak(report)
        /\ Cardinality(PeakAlerts) <= 1
        /\ \A i \in PeakAlerts :
              /\ insights[i].type = "alert"
              /\ \E n \in 1..Len(report.peak_hours) :
                    /\ report.peak_hours[n].hour = insights[i].message[2]
                    /\ report.peak_hours[n].count = MaxCount(report.peak_hours)

C15_Witness ==
    /\ op = "insights_of"
    /\ report.peak_hours = <<[hour |-> 9, count |-> 5], [hour |-> 14, count |-> 2]>>
    /\ \E i \in PeakAlerts : insights[i].message[2] = 9
    /\ \A i \in PeakAlerts : insights[i].message[2] # 14

\* the positions of peak_hours that hold the largest count
Tied(peak_hours) ==
    {n \in 1..Len(peak_hours) : peak_hours[n].count = MaxCount(peak_hours)}

\* the position in the input of the first sample taken at an hour
FirstSeen(data, hour) ==
    CHOOSE i \in 1..Len(data) :
        /\ Hour(data[i].timestamp) = hour
        /\ \A j \in 1..(i - 1) : Hour(data[j].timestamp) # hour

\* C25: when several hours share the largest count, the peak-usage alert
\* names the one that comes first in the mapping; in a report of analyze
\* that is the tied hour whose first sample is earliest in the input
C25_TieBreak ==
    Advised =>
        \A i \in PeakAlerts :
            LET named == insights[i].message[2]
                tied == Tied(report.peak_hours)
            IN  /\ \E n \in tied :
                      /\ report.peak_hours[n].hour = named
                      /\ \A m \in tied : n <= m
                /\ op = "insights" =>
                      \A m \in tied :
                          FirstSeen(samples, named)
                              <= FirstSeen(samples, report.peak_hours[m].hour)

\* analyze and insights on samples in which 14:00 is seen before 9:00 and
\* both hold the largest count: the alert names 14:00
C25_Witness ==
    /\ op = "insights"
    /\ Cardinality(Tied(report.peak_hours)) = 2
    /\ \E n \in Tied(report.peak_hours) : report.peak_hours[n].hour = 9
    /\ \E i \in PeakAlerts : insights[i].message[2] = 14

(***************************************************************************)
(* Claims about the voltage alerts, checked under SpecHardware.            *)
(***************************************************************************)
\* the last request was accepted: its row is the last one stored
Stored == op = "hardware_data" /\ response.code = 200

LastRow == rows[Len(rows)]

\* the voltage reading of the last request, 0 when the field is absent
Reading == Field(request.data, "voltage")

\* the classification a row carries: level and direction, none for no alert
ClassOf(row) ==
    IF row.alert_level = Nothing /\ row.alert_message = Nothing
    THEN <<"none", "none">>
    ELSE IF row.alert_level = Nothing \/ row.alert_message = Nothing
    THEN <<"mixed", "mixed">>
    ELSE <<row.alert_level[1],
           IF row.alert_message[1][1] \in {"CRITICAL HIGH VOLTAGE DETECTED",
                                           "High voltage condition"}
           THEN "high" ELSE "low">>

\* the classification as the specification words it, the thresholds being
\* the real numbers nominal * 1.15, 1.10, 0.85 and 0.90
ClaimedClass(voltage, nominal) ==
    IF 100 * voltage >= 115 * nominal THEN <<"critical", "high">>
    ELSE IF 100 * voltage >= 110 * nominal THEN <<"warning", "high">>
    ELSE IF 100 * voltage <= 85 * nominal THEN <<"critical", "low">>
    ELSE IF 100 * voltage <= 90 * nominal THEN <<"warning", "low">>
    ELSE <<"none", "none">>

\* the demo stored a row
Demonstrated == op = "voltage_demo" /\ response.code = 200

\* the level of an alert, none for no alert
LevelOf(alert_level) == IF alert_level = Nothing THEN "none" ELSE alert_level[1]

\* C26: the alert level the demo stores and returns for the voltage it
\* generated is the level the ingestion classifier gives that voltage
C26_SameClassifier ==
    Demonstrated =>
        LET ingested == VoltageAlert(LastRow.voltage[1])
        IN  /\ LevelOf(LastRow.alert_level) = LevelOf(ingested.alert_level)
            /\ (response.alert = Nothing) = (ingested.alert_level = Nothing)
            /\ response.alert # Nothing =>
                  response.alert[1].level = LevelOf(ingested.alert_level)

\* C16: a positive reading is classified by the first match of: at least
\* nominal * 1.15 critical high, at least nominal * 1.10 warning high, at
\* most nominal * 0.85 critical low, at most nominal * 0.90 warning low,
\* otherwise no alert
C16_FirstMatch ==
    (Stored /\ Reading > 0) => ClassOf(LastRow) = ClaimedClass(Reading, 220)

\* C17: a reading that is absent or not positive is not classified: the row
\* has no alert message, no alert level and no voltage, and the response
\* carries no alert
C17_NoReading ==
    (Stored /\ Reading <= 0) =>
        /\ LastRow.alert_message = Nothing
        /\ LastRow.alert_level = Nothing
        /\ LastRow.voltage = Nothing
        /\ response.alert = Nothing

C17_Witness ==
    /\ Stored
    /\ "voltage" \in request.data.present
    /\ Reading = 0
    /\ LastRow.voltage = Nothing
    /\ response.alert = Nothing

\* C18: the comparisons are inclusive at the configured boundary values:
\* 253 is critical high, 242 warning high, 198 warning low, 187 critical
\* low, and 230 gives no alert
C18_Boundaries ==
    Stored =>
        /\ Reading = HardwareConfig.voltage_critical_high
              => ClassOf(LastRow) = <<"critical", "high">>
        /\ Reading = HardwareConfig.voltage_high_threshold
              => ClassOf(LastRow) = <<"warning", "high">>
        /\ Reading = HardwareConfig.voltage_low_threshold
              => ClassOf(LastRow) = <<"warning", "low">>
        /\ Reading = HardwareConfig.voltage_critical_low
              => ClassOf(LastRow) = <<"critical", "low">>
        /\ Reading = 230 => ClassOf(LastRow) = <<"none", "none">>

(***************************************************************************)
(* Claims about the predictor, checked under Spec.                         *)
(***************************************************************************)
\* the forecast of the flat-fallback path, as the specification words it
FlatOf(current_data, h) ==
    [i \in 1..h |->
        IF current_data = <<>> THEN R(DefaultFlat)
        ELSE current_data[Len(current_data)].energy_consumed]

\* every predict call made now, with a horizon of at least 1, returns the
\* flat forecast
NextPredictIsFlat ==
    \A data \in CurrentInputs, h \in 1..MaxHorizon :
        \A now \in NowDraws(predictor, data), noise \in [1..h -> NoiseValues] :
            predict(predictor, data, h, now, noise) = FlatOf(data, h)

AfterShortTrain == op = "train" /\ Len(samples) < MinTrain

\* C1 as stated: after any earlier calls, train on fewer than 24 samples
\* returns 0 and leaves the predictor where the next predict takes the
\* flat-fallback path
C1_Original == AfterShortTrain => (ret = R(0) /\ NextPredictIsFlat)

\* C1 amended: train on fewer than 24 samples returns 0 and leaves the
\* predictor as it was, so the next predict takes the flat-fallback path
\* exactly when the predictor was not Trained before the call
C1_Amended ==
    AfterShortTrain =>
        /\ ret = R(0)
        /\ predictor = before
        /\ NextPredictIsFlat <=> ~before.is_trained

C1_Witness == AfterShortTrain /\ before.is_trained /\ ~NextPredictIsFlat

\* C2: the instance starts Untrained, is Trained after a step exactly when
\* it was Trained before or the step is a train call with at least 24
\* samples, and so never goes back to Untrained
C2_OneWay ==
    /\ ~predictor.is_trained
    /\ [][predictor'.is_trained =
            (predictor.is_trained \/ (op' = "train" /\ Len(samples') >= MinTrain))]_vars

C2_Witness ==
    /\ op = "predict"
    /\ predictor.is_trained
    /\ before.is_trained
    /\ samples = <<>>

\* C3: predict returns a sequence as long as its horizon, in both states
\* and for empty and non-empty samples
C3_Length == op = "predict" => Len(ret) = horizon

C3_Witness ==
    /\ op = "predict"
    /\ horizon = MaxHorizon
    /\ ~predictor.is_trained
    /\ samples # <<>>

\* C4: every value a Trained predictor returns lies in [10, 200]
C4_Bounded ==
    (op = "predict" /\ predictor.is_trained) =>
        \A i \in 1..Len(ret) : RLe(R(ClampLo), ret[i]) /\ RLe(ret[i], R(ClampHi))

\* a run where a negative and a very large noise draw are both clamped
C4_Witness ==
    /\ op = "predict"
    /\ predictor.is_trained
    /\ \E i, j \in 1..Len(ret) : ret[i] = R(ClampLo) /\ ret[j] = R(ClampHi)

\* C6: an Untrained predictor returns horizon copies of the last sample's
\* energy_consumed as it is, or of 50.0 when there are no samples
C6_Fallback ==
    (op = "predict" /\ ~predictor.is_trained) =>
        /\ Len(ret) = horizon
        /\ \A i \in 1..horizon :
              ret[i] = IF samples = <<>> THEN R(DefaultFlat)
                       ELSE samples[Len(samples)].energy_consumed

\* a value above 200 is returned unclamped
C6_Witness ==
    /\ op = "predict"
    /\ ~predictor.is_trained
    /\ horizon >= 1
    /\ samples # <<>>
    /\ RLt(R(ClampHi), ret[1])

\* C7: with more than 24 and at most 48 samples train returns 70, stores
\* it and leaves the predictor Trained; the backtest runs only above 48
C7_DefaultScore ==
    /\ (op = "train" /\ MinTrain < Len(samples) /\ Len(samples) <= BacktestMin) =>
          /\ ret = R(DefaultScore)
          /\ predictor.validation_score = R(DefaultScore)
          /\ predictor.is_trained
          /\ ~backtest
    /\ backtest => (op = "train" /\ Len(samples) > BacktestMin)

C7_Witness ==
    /\ op = "train"
    /\ Len(samples) = BacktestMin
    /\ ret = R(DefaultScore)
    /\ ~before.is_trained

\* the holdout of a history: its last 24 samples
Holdout(data) == SubSeq(data, Len(data) - HoldOut + 1, Len(data))

\* the predictor the score is measured on: a fresh one, trained on all but
\* the last 24 samples
Reference(data) == train(EnergyPredictor, SubSeq(data, 1, Len(data) - HoldOut)).self

\* a factor of the reference predictor, 1.0 when unseen
FactorOr1(factors, k) == IF k \in DOMAIN factors THEN factors[k] ELSE R(1)

\* |actual - predicted| / actual * 100 for one holdout sample (actual # 0)
PercentError(ref, d) ==
    LET predicted == RMul(ref.baseline,
                          RMul(FactorOr1(ref.hourly_patterns, Hour(d.timestamp)),
                               FactorOr1(ref.daily_patterns, Weekday(d.timestamp))))
    IN  RMul(RDiv(RAbs(RSub(d.energy_consumed, predicted)), d.energy_consumed),
             R(100))

\* max(0, 100 - total / count)
ScoreOf(total, count) == RMax(R(0), RSub(R(100), RDiv(total, R(count))))

PositiveActual(d) == d.energy_consumed[1] # 0

\* the score as the specification defines it, for a holdout without a zero
ClaimedScore(data) ==
    LET ref == Reference(data)
        test == Holdout(data)
    IN  ScoreOf(RSum([i \in 1..HoldOut |-> PercentError(ref, test[i])]), HoldOut)

BigHistories == {h \in Histories : Len(h) > BacktestMin}

PositiveHistories ==
    {x \in BigHistories : \A i \in 1..HoldOut : PositiveActual(Holdout(x)[i])}

ClaimedPairs == {<<h, ClaimedScore(h)>> : h \in PositiveHistories}

ClaimedScores ==
    [h \in PositiveHistories |-> (CHOOSE pair \in ClaimedPairs : pair[1] = h)[2]]

GuardedScores(data) ==
    LET ref == Reference(data)
        test == Holdout(data)
        kept == SelectSeq(test, PositiveActual)
        total == RSum([i \in 1..Len(kept) |-> PercentError(ref, kept[i])])
        zeros == HoldOut - Len(kept)
    IN  { ScoreOf(total, Len(kept)),
          ScoreOf(total, HoldOut),
          ScoreOf(RAdd(total, R(100 * zeros)), HoldOut) }

GuardedHistories ==
    {h \in BigHistories :
        /\ \E i \in 1..HoldOut : ~PositiveActual(Holdout(h)[i])
        /\ \E i \in 1..HoldOut : PositiveActual(Holdout(h)[i])}

GuardedPairs == {<<h, GuardedScores(h)>> : h \in GuardedHistories}

GuardedTable ==
    [h \in GuardedHistories |-> (CHOOSE pair \in GuardedPairs : pair[1] = h)[2]]

\* C9: a holdout sample whose energy_consumed is 0 is skipped or counted as
\* neutral, so train returns the score of the remaining holdout samples
C9_ZeroActualGuarded ==
    (op = "train" /\ samples \in GuardedHistories) => ret \in GuardedTable[samples]

\* two successive predict calls on one Trained profile with the same
\* samples, the same horizon and the same draws of the noise source
SameCall ==
    /\ op = "predict" /\ op' = "predict"
    /\ predictor.is_trained
    /\ before = predictor /\ before' = predictor
    /\ samples' = samples
    /\ horizon' = horizon
    /\ drawn'.noise = drawn.noise

HoursOf(data) == {Hour(data[i].timestamp) : i \in 1..Len(data)}
WeekdaysOf(data) == {Weekday(data[i].timestamp) : i \in 1..Len(data)}

\* a finite, strictly positive multiplier
PositiveMultiplier(x) == x[2] > 0 /\ x[1] > 0

\* C20: after a train that fitted, every hour and every weekday that occurs
\* in the training samples maps to a finite, strictly positive multiplier,
\* and an hour or weekday that does not occur is read as 1.0
C20_PositiveMultipliers ==
    (op = "train" /\ Len(samples) >= MinTrain) =>
        /\ predictor.is_trained
        /\ DOMAIN predictor.hourly_patterns = HoursOf(samples)
        /\ DOMAIN predictor.daily_patterns = WeekdaysOf(samples)
        /\ \A hour \in HoursOf(samples) :
              PositiveMultiplier(predictor.hourly_patterns[hour])
        /\ \A day \in WeekdaysOf(samples) :
              PositiveMultiplier(predictor.daily_patterns[day])
        /\ \A hour \in (0..23) \ HoursOf(samples) :
              Get(predictor.hourly_patterns, hour, R(1)) = R(1)
        /\ \A day \in (0..6) \ WeekdaysOf(samples) :
              Get(predictor.daily_patterns, day, R(1)) = R(1)

\* the mean energy_consumed of the samples taken at one hour of day
HourMean(data, hour) ==
    LET At(d) == Hour(d.timestamp) = hour
        sel == SelectSeq(data, At)
    IN  RMean([i \in 1..Len(sel) |-> sel[i].energy_consumed])

\* C21: after a train that fitted with a baseline above 0, the baseline
\* times the hourly factor of an hour is the mean consumption of the
\* training samples at that hour
C21_Normalised ==
    (op = "train" /\ Len(samples) >= MinTrain /\ RLt(R(0), predictor.baseline)) =>
        \A hour \in HoursOf(samples) :
            RMul(predictor.baseline, predictor.hourly_patterns[hour])
                = HourMean(samples, hour)

\* C22: after a train with at least 24 samples the profile is that of a
\* fresh instance trained on the same samples, whatever the instance held
\* before; an hour or weekday that does not occur in the samples has no
\* entry and is read as 1.0
C22_Replaced ==
    (op = "train" /\ Len(samples) >= MinTrain) =>
        /\ predictor = train(EnergyPredictor, samples).self
        /\ \A hour \in (0..23) \ HoursOf(samples) :
              /\ hour \notin DOMAIN predictor.hourly_patterns
              /\ Get(predictor.hourly_patterns, hour, R(1)) = R(1)
        /\ \A day \in (0..6) \ WeekdaysOf(samples) :
              /\ day \notin DOMAIN predictor.daily_patterns
              /\ Get(predictor.daily_patterns, day, R(1)) = R(1)

\* a retrain of a Trained predictor whose earlier profile had an hour and
\* a weekday that do not occur in the new samples
C22_Witness ==
    /\ op = "train"
    /\ Len(samples) >= MinTrain
    /\ before.is_trained
    /\ before.baseline # predictor.baseline
    /\ DOMAIN before.hourly_patterns \ HoursOf(samples) # {}
    /\ DOMAIN before.daily_patterns \ WeekdaysOf(samples) # {}

\* the samples the backtest trains its throwaway predictor on, and the
\* predictor it gets
Throwaway(data) ==
    train(EnergyPredictor, SubSeq(data, 1, Len(data) - HoldOut)).self

\* the score of a throwaway predictor on the last 24 samples
HoldoutScore(temp, data) ==
    LET n == Len(data)
    IN  Accuracy(Mape([i \in 1..HoldOut |->
            AbsRelError(data[n - HoldOut + i].energy_consumed,
                        BacktestPrediction(temp, data[n - HoldOut + i].timestamp))]))

\* C23: after train on more than 48 samples the instance's baseline and
\* hourly and daily factors are those of all the samples, the last 24
\* included; only the validation score comes from the throwaway predictor
\* trained on the samples before the last 24
C23_Throwaway ==
    (op = "train" /\ Len(samples) > BacktestMin) =>
        LET all == [i \in 1..Len(samples) |-> samples[i].energy_consumed]
        IN  /\ backtest
            /\ predictor.is_trained
            /\ predictor.baseline = RMean(all)
            /\ predictor.hourly_patterns
                  = Patterns(samples, RMean(all), "hourly_patterns")
            /\ predictor.daily_patterns
                  = Patterns(samples, RMean(all), "daily_patterns")
            /\ predictor.validation_score = HoldoutScore(Throwaway(samples), samples)
            /\ ret = predictor.validation_score

\* a backtest whose throwaway predictor has another baseline and other
\* hourly factors than the profile the instance is left with
C23_Witness ==
    /\ op = "train"
    /\ Len(samples) > BacktestMin
    /\ backtest
    /\ Throwaway(samples).baseline # predictor.baseline
    /\ Throwaway(samples).hourly_patterns # predictor.hourly_patterns

\* the entry of a factor mapping, 1.0 for a key unseen in training
FactorOf(mapping, key) == IF key \in DOMAIN mapping THEN mapping[key] ELSE R(1)

\* x clamped to [10, 200]
Clamped(x) ==
    IF RLt(x, R(ClampLo)) THEN R(ClampLo)
    ELSE IF RLt(R(ClampHi), x) THEN R(ClampHi)
    ELSE x

\* step i of a forecast anchored at hour h0 of weekday d0
ClaimedStep(profile, h0, d0, i, noise) ==
    LET hourly == FactorOf(profile.hourly_patterns, (h0 + i + 1) % 24)
        daily == FactorOf(profile.daily_patterns, (d0 + (h0 + i + 1) \div 24) % 7)
    IN  Round1(Clamped(RMul(RMul(RMul(profile.baseline, hourly), daily), noise)))

\* C24: on a Trained predictor with samples whose last timestamp has hour
\* h0 and weekday d0, step i of predict is the baseline times the hourly
\* factor of hour (h0 + i + 1) mod 24, the daily factor of weekday
\* (d0 + floor((h0 + i + 1) / 24)) mod 7 and the noise draw, clamped to
\* [10, 200] and rounded to one decimal; an unseen key counts as 1.0
C24_Step ==
    (op = "predict" /\ before.is_trained /\ samples # <<>>) =>
        LET last == samples[Len(samples)].timestamp
        IN  /\ Len(ret) = horizon
            /\ \A i \in 0..horizon - 1 :
                  ret[i + 1] = ClaimedStep(before, Hour(last), Weekday(last), i,
                                           drawn.noise[i + 1])

\* a forecast from a Sunday 23:00 sample, so that the steps fall on Monday,
\* with a first value strictly inside the clamp and an hourly factor other
\* than 1.0
C24_Witness ==
    /\ op = "predict"
    /\ before.is_trained
    /\ samples # <<>>
    /\ horizon = MaxHorizon
    /\ Hour(samples[Len(samples)].timestamp) = 23
    /\ Weekday(samples[Len(samples)].timestamp) = 6
    /\ FactorOf(before.hourly_patterns, 0) # R(1)
    /\ RLt(R(ClampLo), ret[1])
    /\ RLt(ret[1], R(ClampHi))

\* C27: train with fewer than 24 samples leaves is_trained, baseline,
\* hourly_patterns, daily_patterns and validation_score as they were; after
\* a train with at least 24 samples is_trained is true and the four profile
\* fields are set
C27_Frame ==
    op = "train" =>
        IF Len(samples) < MinTrain
        THEN /\ predictor.is_trained = before.is_trained
             /\ predictor.baseline = before.baseline
             /\ predictor.hourly_patterns = before.hourly_patterns
             /\ predictor.daily_patterns = before.daily_patterns
             /\ predictor.validation_score = before.validation_score
        ELSE /\ predictor.is_trained
             /\ predictor.baseline # None
             /\ predictor.hourly_patterns # None
             /\ predictor.daily_patterns # None
             /\ predictor.validation_score # None

\* a train with 23 samples on a predictor that holds a backtested score
C27_Witness ==
    /\ op = "train"
    /\ Len(samples) = MinTrain - 1
    /\ before.is_trained
    /\ before.validation_score \notin {None, R(0), R(DefaultScore)}
    /\ predictor.validation_score = before.validation_score

\* C28: a predict call, in either state and for every samples and horizon
\* argument, leaves is_trained, baseline, hourly_patterns, daily_patterns
\* and validation_score as they were, so the calls that follow see the
\* profile the last train left
C28_ReadOnly ==
    [][op' = "predict" =>
          /\ predictor'.is_trained = predictor.is_trained
          /\ predictor'.baseline = predictor.baseline
          /\ predictor'.hourly_patterns = predictor.hourly_patterns
          /\ predictor'.daily_patterns = predictor.daily_patterns
          /\ predictor'.validation_score = predictor.validation_score
          /\ before' = predictor]_vars

\* a predict on a Trained predictor that holds a backtested score: the
\* profile is the one the call started from
C28_Witness ==
    /\ op = "predict"
    /\ predictor.is_trained
    /\ predictor = before
    /\ predictor.validation_score \notin {None, R(0), R(DefaultScore)}
    /\ samples # <<>>
    /\ horizon = MaxHorizon
    /\ Len(ret) = MaxHorizon

\* the sample counts of the train calls the last call made, itself first
Fittings == Call_train(before, samples).fitted

\* C29: train returns for every sample sequence; each backtest call gets
\* exactly 24 samples fewer than its caller, is made only by a caller with
\* more than 48 samples, gets at least 25 samples, and leaves its throwaway
\* predictor Trained with baseline and factor mappings set
C29_Terminates ==
    (op = "train" /\ Len(samples) >= MinTrain) =>
        /\ Fittings[1] = Len(samples)
        /\ Len(Fittings) = IF Len(samples) <= BacktestMin THEN 1
                           ELSE (Len(samples) - (MinTrain + 1)) \div HoldOut + 1
        /\ \A k \in 2..Len(Fittings) :
              /\ Fittings[k] = Fittings[k - 1] - HoldOut
              /\ Fittings[k - 1] > BacktestMin
              /\ Fittings[k] >= MinTrain + 1
              /\ LET temp == train(EnergyPredictor, SubSeq(samples, 1, Fittings[k])).self
                 IN  /\ temp.is_trained
                     /\ temp.baseline # None
                     /\ temp.hourly_patterns # None
                     /\ temp.daily_patterns # None

\* a train whose backtest predictor ran a backtest of its own: three calls,
\* on 73, 49 and 25 samples
C29_Witness ==
    /\ op = "train"
    /\ Len(samples) = DeepCount
    /\ Fittings = <<DeepCount, DeepCount - HoldOut, DeepCount - 2 * HoldOut>>
    /\ backtest

(***************************************************************************)
(* Claims about the threaded host, checked under SpecConc.                 *)
(***************************************************************************)
\* the profiles a completed train call leaves
CompletedProfiles ==
    {Fitted[h].self : h \in (ConcStart \cup ConcHistories) \cap DOMAIN Fitted}

\* C5: a predict call interleaved with a train call uses, in each step, a
\* baseline, an hourly factor and a daily factor of one completed profile:
\* no mix of an old and a new field, no entry that is still a list
C5_NoTornRead ==
    reader.used.timestamp >= 0 =>
        \E prof \in CompletedProfiles :
            /\ reader.used.baseline = prof.baseline
            /\ reader.used.hour_factor =
                   Get(prof.hourly_patterns, Hour(reader.used.timestamp), R(1))
            /\ reader.used.day_factor =
                   Get(prof.daily_patterns, Weekday(reader.used.timestamp), R(1))

(***************************************************************************)
(* Claims about the trend analysis, checked under SpecTrend.               *)
(***************************************************************************)
\* the consumption series of the samples analysed last
Series == [i \in 1..Len(samples) |-> samples[i].energy_consumed]

\* the split by index at floor(n/2): the extra element of an odd length is
\* in the second half
FirstHalfOf(v) == SubSeq(v, 1, Len(v) \div 2)
SecondHalfOf(v) == SubSeq(v, Len(v) \div 2 + 1, Len(v))

\* the trend as the specification words it
ClaimedTrend(v) ==
    IF Len(v) = 1 THEN "neutral"
    ELSE IF RLt(RMul(<<105, 100>>, RMean(FirstHalfOf(v))), RMean(SecondHalfOf(v)))
    THEN "increasing"
    ELSE IF RLt(RMul(<<105, 100>>, RMean(SecondHalfOf(v))), RMean(FirstHalfOf(v)))
    THEN "decreasing"
    ELSE "neutral"

\* every second-half value is double every first-half value
Doubles(v) ==
    /\ Len(v) > 1
    /\ \A i \in 1..(Len(v) \div 2), j \in (Len(v) \div 2 + 1)..Len(v) :
           v[j] = RMul(R(2), v[i])

Analysed == op \in {"analyze", "insights"} /\ samples # <<>>

\* C11 as stated: the trend is that of the split at floor(n/2) with the
\* factor 1.05, a single sample is neutral, and every series whose
\* second-half values are double its first-half values is increasing
C11_Original ==
    Analysed =>
        /\ report.trend = ClaimedTrend(Series)
        /\ Doubles(Series) => report.trend = "increasing"

\* C11 amended: the trend is that of the split at floor(n/2) with the
\* factor 1.05, a single sample is neutral, and a series whose second-half
\* values are double its first-half values is increasing when those values
\* are positive (doubled zeros are neutral)
C11_Amended ==
    Analysed =>
        /\ report.trend = ClaimedTrend(Series)
        /\ (Doubles(Series) /\ RLt(R(0), Series[1])) => report.trend = "increasing"

C11_Witness ==
    /\ op = "analyze"
    /\ Len(samples) = 10
    /\ Doubles(Series)
    /\ report.trend = "increasing"

\* the samples at hour h whose consumption is strictly above the mean of
\* the whole series
AboveAverageAt(h) ==
    {i \in 1..Len(samples) :
        /\ Hour(samples[i].timestamp) = h
        /\ RLt(RMean(Series), samples[i].energy_consumed)}

\* the entries of the reported peak_hours for hour h
EntriesAt(h) ==
    {n \in 1..Len(report.peak_hours) : report.peak_hours[n].hour = h}

\* C12: peak_hours has an entry for hour h exactly when some sample at hour
\* h is strictly above the consumption mean, and the entry counts those
\* samples; an hour with no such sample is absent
C12_PeakHours ==
    Analysed =>
        \A h \in 0..23 :
            /\ (EntriesAt(h) # {}) = (AboveAverageAt(h) # {})
            /\ \A n \in EntriesAt(h) :
                  report.peak_hours[n].count = Cardinality(AboveAverageAt(h))

\* C10: analyze on no samples returns statistics that are all 0, the
\* trend neutral and no peak hours; insights on that report returns the
\* one success insight about stable patterns
C10_Empty ==
    (op \in {"analyze", "insights"} /\ samples = <<>>) =>
        /\ \A series \in {"production", "consumption"} :
              \A stat \in {"mean", "max", "min", "std2"} :
                  report.statistics[series][stat] = R(0)
        /\ report.trend = "neutral"
        /\ report.peak_hours = <<>>
        /\ op = "insights" =>
              /\ Len(insights) = 1
              /\ insights[1].type = "success"
              /\ insights[1].message =
                    <<"Energy consumption patterns are stable and within expected parameters.">>

C10_Witness == op = "insights" /\ samples = <<>> /\ Len(insights) = 1

(***************************************************************************)
(* Claims about the application flow, checked under SpecApp.               *)
(***************************************************************************)
Served == op \in {"ml_dashboard", "get_predictions"}

\* the instant the forecast of the last request is anchored at
Anchor == IF samples # <<>> THEN samples[Len(samples)].timestamp ELSE drawn.now[1]

\* C30: a request retrains only when its window holds more than 24
\* samples; once a request has trained the predictor, a request whose
\* window holds 24 samples or fewer is served from the earlier profile
\* through the trained path, with values in [10, 200], and the dashboard
\* reports model_score 0 for it
C30_StaleProfile ==
    Served =>
        /\ predictor # before => Len(samples) > 24
        /\ (before.is_trained /\ Len(samples) <= 24) =>
              /\ predictor = before
              /\ Len(ret) = horizon
              /\ \A i \in 0..horizon - 1 :
                    /\ ret[i + 1] = ClaimedStep(before, Hour(Anchor), Weekday(Anchor), i,
                                                drawn.noise[i + 1])
                    /\ RLe(R(10), ret[i + 1])
                    /\ RLe(ret[i + 1], R(200))
              /\ op = "ml_dashboard" => response.model_score = Some(R(0))

\* the dashboard served from an empty window by a predictor that an earlier
\* request trained: the forecast is anchored at the clock and drew noise
C30_Witness ==
    /\ op = "ml_dashboard"
    /\ before.is_trained
    /\ samples = <<>>
    /\ response.model_score = Some(R(0))
    /\ horizon >= 1
    /\ Len(drawn.noise) = horizon
    /\ drawn.now # <<>>
    /\ RLt(R(10), ret[1])

====
